---- MODULE Spec2Model ----
(***************************************************************************)
(* A model of src/src/cscope/cscope.ts (class Cscope): the build queue of  *)
(* two promise slots, buildSingle's probe / store / wait / spawn steps,    *)
(* the child-process event handlers, and the build() and query() loops.    *)
(*                                                                         *)
(* Scheduling follows the JavaScript event loop.  Every `await` is a yield *)
(* point; the continuation is a promise job.  Promise jobs of different    *)
(* activations interleave; the continuations of the slot scans, which all  *)
(* take the same number of ticks per probe, run in the order in which they *)
(* were queued.  A child-process event ('data', 'line', 'error', 'close')  *)
(* is delivered only when no promise job is runnable.  A caller may enter  *)
(* build() or query() at any moment.                                       *)
(*                                                                         *)
(* The last part models CscopeQuery.setResults (src/unnamed/part_000), the *)
(* parser of a query's raw output, under a specification of its own.       *)
(*                                                                         *)
(* Strings are sequences of one-character strings.                         *)
(***************************************************************************)
EXTENDS Integers, Sequences, FiniteSets, TLC

\* ------------------------------------------------------------- bounds ----
\* Number of build() / query() activations, numbered in the order of the calls.
NumCallers == 3
\* Number of workspace directories returned by env.getAllDirectories().
NumDirs == 2
\* Most activations that are query() calls (the others are build() calls).
MaxQueries == 1
\* Most lines in the output handed to setResults.
MaxLines == 3

\* ---------------------------------------------------- program constants --
\* The length of the buildQueue array (two pre-resolved promises).
Capacity == 2

Callers == 1..NumCallers
\* the ids promises can get: the initial ones, then one per accepted buildSingle
OpIds == 1..(Capacity + NumCallers * NumDirs)
Directories == [i \in 1..NumDirs |-> i]

\* --------------------------------------------------------------- strings --
IsSpace(ch) == ch \in {" ", "\n"}

RECURSIVE TrimStart(_)
TrimStart(s) ==
  IF s = <<>> THEN <<>>
  ELSE IF IsSpace(Head(s)) THEN TrimStart(Tail(s)) ELSE s

RECURSIVE TrimEnd(_)
TrimEnd(s) ==
  IF s = <<>> THEN <<>>
  ELSE IF IsSpace(s[Len(s)]) THEN TrimEnd(SubSeq(s, 1, Len(s) - 1)) ELSE s

\* String.prototype.trim
Trim(s) == TrimEnd(TrimStart(s))

\* Array.prototype.join
RECURSIVE Join(_, _)
Join(segs, sep) ==
  IF segs = <<>> THEN <<>>
  ELSE IF Len(segs) = 1 THEN segs[1]
  ELSE segs[1] \o sep \o Join(Tail(segs), sep)

NewLine == <<"\n">>
QueueFullMsg == <<"q","u","e","u","e"," ","f","u","l","l">>
ErrorPrefix == <<"E","r","r","o","r",":"," ">>
\* error.toString() of a failed spawn; the trailing blank is trimmed by the handler
LaunchErrorText == <<"E","N","O","E","N","T"," ">>

\* `Error: ${err}` pushed by build()'s catch
ErrorSegment(err) == ErrorPrefix \o err

\* ---------------------------------------------------------------- config --
\* config.get(key): the tool path, database path and extra flags
ConfigGet ==
  [cscope |-> <<"cscope">>, database |-> <<"cscope.out">>,
   buildArgs |-> <<"-b">>, queryArgs |-> <<"-L">>]

\* the flag table, and the kinds and words a caller passes in the model
QueryType ==
  [symbol |-> <<"-0">>, definition |-> <<"-1">>, callee |-> <<"-2">>,
   caller |-> <<"-3">>, text |-> <<"-4">>, egrep |-> <<"-5">>,
   file |-> <<"-6">>, include |-> <<"-7">>, set |-> <<"-8">>]
QueryKinds == {"callee"}
QueryWords == { <<"f">> }

\* ----------------------------------------------------------- environment --
\* What the external tool writes when run in directory d: a fixed transcript
\* per directory, delivered chunk by chunk (stdout and stderr are separate
\* pipes; the order between them is immaterial to the handlers).  Whether the
\* process launches, and its exit code, are chosen freely at each run.
DirChar(d) == <<"a", "b", "c", "d">>[d]

BuildTranscript(d) ==
  << <<"out", <<" ", DirChar(d)>> >>,
     <<"err", <<"e", DirChar(d), "\n">> >>,
     <<"out", <<" ", "x", "\n">> >> >>

\* query output: lines `file func lnum rest`; one line cannot be parsed
GoodLine(d, n) == <<DirChar(d), " ", "g", " ", n, " ", "r">>
BadLine(d) == <<DirChar(d), " ", "g">>

QueryTranscript(d) ==
  << <<"line", GoodLine(d, "1")>>,
     <<"line", BadLine(d)>>,
     <<"err", <<" ", "q", DirChar(d)>> >>,
     <<"line", GoodLine(d, "2")>> >>

ExitCodes == {0, 1}

\* ----------------------------------------------------------------- state --
VARIABLES
  buildQueue,   \* this.buildQueue: slot -> promise id
  promise,      \* every promise created so far: id -> its record
  buildCmd,     \* this.buildCmd
  queryCmd,     \* this.queryCmd
  pc,           \* caller -> where its build()/query() activation stands
  kind,         \* caller -> "none" | "build" | "query"
  dirIdx,       \* caller -> index of the directory the for-loop is at
  probe,        \* caller -> buildSingle's locals: index and probed state
  awaited,      \* caller -> promise build() awaits (0: 'queue full' rejection)
  results,      \* caller -> build()'s results / query()'s allResults
  ret,          \* caller -> the value the call returned
  qs,           \* caller -> the querySingle promises it created, in order
  log,          \* log.err entries written by the two catch blocks
  hist,         \* caller -> history: what was outstanding when buildSingle
                \*   was entered, and how each directory so far ended
  jobs,         \* the callers whose scan is suspended at `await promiseState`,
                \*   in the order in which their continuations were queued
  sr            \* the CscopeQuery object and its setResults activation

vars == <<buildQueue, promise, buildCmd, queryCmd, pc, kind, dirIdx, probe,
          awaited, results, ret, qs, log, hist, jobs, sr>>

PromiseIds == 1..Len(promise)

\* lines 22-26, promiseState(p): 'pending' | 'fulfilled' | 'rejected'.  The
\* race is decided by the state p has when promiseState is called; the caller
\* sees the answer when its await resumes.
PromiseState(p) == promise[p].state

Settled(p) == promise[p].state # "pending"
\* operations accepted by buildSingle (the two initial promises are not)
Ops == {p \in PromiseIds : p > Capacity}
Unsettled == {p \in Ops : ~Settled(p)}

\* line 91: the slot is taken when `state != 'pending'`
SlotFree(state) == state # "pending"

\* lines 88-98: what the scan does with the state it probed at slot idx:
\* take the slot, go on to the next slot, or give up with 'queue full'
\* (variant: without the check of lines 95-98 the last slot is written over)
ScanStepNoFullCheck(idx, state) ==
  IF SlotFree(state) \/ idx + 1 > Capacity THEN "store" ELSE "next"
ScanStep(idx, state) ==
  IF SlotFree(state) THEN "store"
  ELSE IF idx + 1 <= Capacity THEN "next"
  ELSE "full"

\* line 99: this.buildQueue.filter(async (p) => ...).  The predicate is an
\* async function: it returns a promise object, which filter takes as true,
\* so every element of the array is kept.
\* (variant: an empty wait list)
PendingPromisesNone(queue) == <<>>
PendingPromises(queue) == queue

\* line 101: Promise.all(pendingPromises).then(cb): cb runs once every
\* element is fulfilled; if one is rejected, Promise.all rejects and cb,
\* the only handler given to then, never runs.
\* (variant: cb runs as soon as one element is fulfilled)
AnyFulfilled(wait) == \E k \in 1..Len(wait) : promise[wait[k]].state = "fulfilled"
AllFulfilled(wait) == \A k \in 1..Len(wait) : promise[wait[k]].state = "fulfilled"

\* lines 55-58: Promise.resolve('')
\* (variant: slots that start out pending)
InitialPromisePending ==
  [state |-> "pending", value |-> <<>>, wait |-> <<>>, cwd |-> 0,
   proc |-> "none", out |-> <<>>, err |-> <<>>, fed |-> 0, first |-> "none",
   owner |-> 0, pendingAtSubmit |-> {}, pendingAtStore |-> {},
   storedOver |-> "fulfilled"]
InitialPromise ==
  [state |-> "fulfilled", value |-> <<>>, wait |-> <<>>, cwd |-> 0,
   proc |-> "none", out |-> <<>>, err |-> <<>>, fed |-> 0, first |-> "none",
   owner |-> 0, pendingAtSubmit |-> {}, pendingAtStore |-> {},
   storedOver |-> "fulfilled"]

NoHist == [full |-> FALSE, out |-> {}, dirs |-> <<>>, seq |-> 0]

\* no CscopeQuery object exists
NotCalled == [called |-> FALSE]

Init ==
  /\ buildQueue = [s \in 1..Capacity |-> s]
  /\ promise = [s \in 1..Capacity |-> InitialPromise]
  /\ buildCmd = <<>>
  /\ queryCmd = <<>>
  /\ pc = [c \in Callers |-> "idle"]
  /\ kind = [c \in Callers |-> "none"]
  /\ dirIdx = [c \in Callers |-> 0]
  /\ probe = [c \in Callers |-> [index |-> 0, state |-> "none"]]
  /\ awaited = [c \in Callers |-> 0]
  /\ results = [c \in Callers |-> <<>>]
  /\ ret = [c \in Callers |-> <<>>]
  /\ qs = [c \in Callers |-> <<>>]
  /\ log = {}
  /\ hist = [c \in Callers |-> NoHist]
  /\ jobs = <<>>
  /\ sr = NotCalled

\* ------------------------------------------------------------ event loop --
AwaitedState(c) ==
  IF awaited[c] = 0 THEN "rejected" ELSE promise[awaited[c]].state
AwaitedValue(c) ==
  IF awaited[c] = 0 THEN QueueFullMsg ELSE promise[awaited[c]].value

\* the then-callback of line 101 can run for operation o
CanStart(o) ==
  /\ o \in Ops
  /\ promise[o].proc = "none"
  /\ AllFulfilled(promise[o].wait)

\* some promise job (the continuation of an await, a then-callback) is runnable
JobsPending ==
  \/ \E c \in Callers : pc[c] = "probe"
  \/ \E c \in Callers : pc[c] = "await" /\ AwaitedState(c) # "pending"
  \/ \E c \in Callers : pc[c] = "qawait" /\ qs[c][Len(qs[c])].state # "pending"
  \/ \E o \in Ops : CanStart(o)

\* activations are numbered in the order in which the calls are made
NextToCall(c) ==
  /\ pc[c] = "idle"
  /\ \A d \in Callers : d < c => pc[d] # "idle"

\* ----------------------------------------------------------- buildSingle --
\* lines 86-89, first iteration: index = 0 and the first promiseState call
\* (slots are numbered from 1 here)
FirstProbe == [index |-> 1, state |-> PromiseState(buildQueue[1])]

\* history: the number of buildSingle calls made so far by callers 1..n
RECURSIVE SubmitCalls(_)
SubmitCalls(n) ==
  IF n = 0 THEN 0
  ELSE (IF kind[n] = "build" THEN dirIdx[n] ELSE 0) + SubmitCalls(n - 1)

\* history: what is outstanding as buildSingle is entered, and the rank of
\* this call among all buildSingle calls
HistNow(dirs) ==
  [dirs |-> dirs,
   seq |-> SubmitCalls(NumCallers) + 1,
   full |-> \A s \in 1..Capacity : ~Settled(buildQueue[s]),
   out |-> Unsettled]

\* lines 99-100 and 138: build the wait list, store the new promise in the
\* chosen slot and hand it to the caller
NewOperation(c, idx) ==
  [state |-> "pending", value |-> <<>>,
   wait |-> PendingPromises(buildQueue),
   cwd |-> Directories[dirIdx[c]],
   proc |-> "none", out |-> <<>>, err |-> <<>>, fed |-> 0, first |-> "none",
   owner |-> c,
   pendingAtSubmit |-> hist[c].out,
   pendingAtStore |-> {p \in PromiseIds : ~Settled(p)},
   storedOver |-> promise[buildQueue[idx]].state]

\* lines 89-98: the continuation of `await promiseState(...)`
ProbeResume(c) ==
  /\ pc[c] = "probe"
  /\ jobs # <<>> /\ Head(jobs) = c
  /\ IF ScanStep(probe[c].index, probe[c].state) = "store"
     THEN /\ promise' = Append(promise, NewOperation(c, probe[c].index))
          /\ buildQueue' = [buildQueue EXCEPT ![probe[c].index] = Len(promise) + 1]
          /\ awaited' = [awaited EXCEPT ![c] = Len(promise) + 1]
          /\ pc' = [pc EXCEPT ![c] = "await"]
          /\ jobs' = Tail(jobs)
          /\ UNCHANGED probe
     ELSE IF ScanStep(probe[c].index, probe[c].state) = "next"
     THEN /\ probe' = [probe EXCEPT ![c] =
                 [index |-> probe[c].index + 1,
                  state |-> PromiseState(buildQueue[probe[c].index + 1])]]
          /\ jobs' = Append(Tail(jobs), c)
          /\ UNCHANGED <<promise, buildQueue, awaited, pc>>
     ELSE /\ awaited' = [awaited EXCEPT ![c] = 0]
          /\ pc' = [pc EXCEPT ![c] = "await"]
          /\ jobs' = Tail(jobs)
          /\ UNCHANGED <<promise, buildQueue, probe>>
  /\ UNCHANGED <<buildCmd, queryCmd, kind, dirIdx, results, ret, qs, log, hist, sr>>

\* lines 103-107
BuildCmdLine ==
  Join(<<ConfigGet.cscope, ConfigGet.buildArgs, <<"-f">>, ConfigGet.database>>, <<" ">>)

\* lines 101-112: the then-callback: set buildCmd and spawn the process
StartBuild(o) ==
  /\ CanStart(o)
  /\ promise' = [promise EXCEPT ![o].proc = "running"]
  /\ buildCmd' = BuildCmdLine
  /\ UNCHANGED <<buildQueue, queryCmd, pc, kind, dirIdx, probe, awaited,
                 results, ret, qs, log, hist, jobs, sr>>

\* --------------------------------------------- build process: its events --
\* the next chunk the process of operation o writes, if any
NextChunk(o) == BuildTranscript(promise[o].cwd)[promise[o].fed + 1]
HasChunk(o, stream) ==
  /\ promise[o].fed < Len(BuildTranscript(promise[o].cwd))
  /\ NextChunk(o)[1] = stream

\* lines 113-115
ProcStdout(o) ==
  /\ ~JobsPending
  /\ o \in Ops /\ promise[o].proc = "running"
  /\ HasChunk(o, "out")
  /\ promise' = [promise EXCEPT ![o].out = @ \o NextChunk(o)[2], ![o].fed = @ + 1]
  /\ UNCHANGED <<buildQueue, buildCmd, queryCmd, pc, kind, dirIdx, probe,
                 awaited, results, ret, qs, log, hist, jobs, sr>>

\* lines 116-118
ProcStderr(o) ==
  /\ ~JobsPending
  /\ o \in Ops /\ promise[o].proc = "running"
  /\ HasChunk(o, "err")
  /\ promise' = [promise EXCEPT ![o].err = @ \o NextChunk(o)[2], ![o].fed = @ + 1]
  /\ UNCHANGED <<buildQueue, buildCmd, queryCmd, pc, kind, dirIdx, probe,
                 awaited, results, ret, qs, log, hist, jobs, sr>>

\* history: which event of the process came first
FirstEvent(old, ev) == IF old = "none" THEN ev ELSE old

\* resolve / reject of a promise: the first call settles it, later ones do nothing
\* (variant: every call sets the state and the value)
SettleAgain(rec, st, v) == [rec EXCEPT !.state = st, !.value = v]
Settle(rec, st, v) ==
  IF rec.state = "pending" THEN [rec EXCEPT !.state = st, !.value = v] ELSE rec

\* lines 119-122: the process could not be launched
ErrorOutcome(rec) == Settle(rec, "rejected", Trim(LaunchErrorText))

ProcError(o) ==
  /\ ~JobsPending
  /\ o \in Ops /\ promise[o].proc = "running"
  /\ promise[o].fed = 0
  /\ promise' = [promise EXCEPT ![o] =
        [ErrorOutcome(@) EXCEPT
            !.proc = "errored", !.first = FirstEvent(@, "error")]]
  /\ UNCHANGED <<buildQueue, buildCmd, queryCmd, pc, kind, dirIdx, probe,
                 awaited, results, ret, qs, log, hist, jobs, sr>>

\* lines 123-135
CloseOutcome(rec, code) ==
  IF code # 0 THEN Settle(rec, "rejected", Trim(rec.err))
  ELSE Settle(rec, "fulfilled", Trim(rec.out))

\* 'close' comes once the process has ended and its streams are drained, or
\* after a failed launch
CanClose(rec, transcript) ==
  IF rec.proc = "running" THEN rec.fed = Len(transcript) ELSE rec.proc = "errored"

ProcClose(o, code) ==
  /\ ~JobsPending
  /\ o \in Ops
  /\ CanClose(promise[o], BuildTranscript(promise[o].cwd))
  /\ promise' = [promise EXCEPT ![o] =
        [CloseOutcome(@, code) EXCEPT
            !.proc = "closed",
            !.first = FirstEvent(@, IF code = 0 THEN "exit0" ELSE "exitN")]]
  /\ UNCHANGED <<buildQueue, buildCmd, queryCmd, pc, kind, dirIdx, probe,
                 awaited, results, ret, qs, log, hist, jobs, sr>>

\* ----------------------------------------------------------------- build --
\* lines 64-71: build() is entered; the loop reaches the first buildSingle
BuildCall(c) ==
  /\ NextToCall(c)
  /\ kind' = [kind EXCEPT ![c] = "build"]
  /\ results' = [results EXCEPT ![c] = <<>>]
  /\ IF NumDirs = 0
     THEN /\ pc' = [pc EXCEPT ![c] = "done"]
          /\ ret' = [ret EXCEPT ![c] = Join(<<>>, NewLine)]
          /\ UNCHANGED <<dirIdx, probe, hist, jobs>>
     ELSE /\ pc' = [pc EXCEPT ![c] = "probe"]
          /\ dirIdx' = [dirIdx EXCEPT ![c] = 1]
          /\ probe' = [probe EXCEPT ![c] = FirstProbe]
          /\ jobs' = Append(jobs, c)
          /\ hist' = [hist EXCEPT ![c] = HistNow(<<>>)]
          /\ UNCHANGED ret
  /\ UNCHANGED <<buildQueue, promise, buildCmd, queryCmd, awaited, qs, log, sr>>

\* lines 71-76: what build() pushes for a settled buildSingle
\* (variant: the rejection value pushed as it is)
BuildSegmentNoPrefix(st, v) == <<v>>
BuildSegment(st, v) ==
  IF st = "fulfilled" THEN <<v>> ELSE <<ErrorSegment(v)>>

\* history: how the directory's operation ended
BuildOutcome(c) ==
  IF awaited[c] = 0 THEN "full" ELSE promise[awaited[c]].first

\* line 71: `await` lets build() go on only once buildSingle's promise settled
BuildAwaitDone(c) == AwaitedState(c) # "pending"

\* lines 69-78: the continuation of `await this.buildSingle(dir)`: push the
\* result or the error, then enter buildSingle for the next directory or return
BuildResume(c) ==
  /\ pc[c] = "await"
  /\ BuildAwaitDone(c)
  /\ results' = [results EXCEPT ![c] = @ \o BuildSegment(AwaitedState(c), AwaitedValue(c))]
  /\ log' = IF AwaitedState(c) = "rejected"
            THEN log \cup {<<"build", c, Directories[dirIdx[c]]>>} ELSE log
  /\ IF dirIdx[c] < NumDirs
     THEN /\ dirIdx' = [dirIdx EXCEPT ![c] = @ + 1]
          /\ pc' = [pc EXCEPT ![c] = "probe"]
          /\ probe' = [probe EXCEPT ![c] = FirstProbe]
          /\ jobs' = Append(jobs, c)
          /\ hist' = [hist EXCEPT ![c] = HistNow(Append(hist[c].dirs, BuildOutcome(c)))]
          /\ UNCHANGED ret
     ELSE /\ pc' = [pc EXCEPT ![c] = "done"]
          /\ ret' = [ret EXCEPT ![c] = Join(results'[c], NewLine)]
          /\ hist' = [hist EXCEPT ![c].dirs = Append(@, BuildOutcome(c))]
          /\ UNCHANGED <<dirIdx, probe, jobs>>
  /\ UNCHANGED <<buildQueue, promise, buildCmd, queryCmd, kind, awaited, qs, sr>>

\* ----------------------------------------------------------- querySingle --
\* new Item(line, parent) (./item): a line with fewer than three separators
\* cannot be decomposed and the constructor throws
Spaces(line) == Cardinality({k \in 1..Len(line) : line[k] = " "})
ItemParses(line) == Spaces(line) >= 3
Item(line, parent) == [text |-> line, parent |-> parent]

\* lines 170-175
QueryCmdLine(type, word) ==
  Join(<<ConfigGet.cscope, ConfigGet.queryArgs, <<"-f">>, ConfigGet.database,
         QueryType[type], word>>, <<" ">>)

\* lines 169-182: the executor runs at once: queryCmd is set, the process
\* spawned; parent is the directory's label relative to the current directory
\* (variant: the process is not spawned in the executor)
NewQueryNotSpawned(type, word, dir) ==
  [state |-> "pending", value |-> <<>>, proc |-> "none", results |-> <<>>,
   out |-> <<>>, err |-> <<>>, fed |-> 0, first |-> "none",
   type |-> type, word |-> word, cwd |-> dir, parent |-> dir]
NewQuery(type, word, dir) ==
  [state |-> "pending", value |-> <<>>, proc |-> "running", results |-> <<>>,
   out |-> <<>>, err |-> <<>>, fed |-> 0, first |-> "none",
   type |-> type, word |-> word, cwd |-> dir, parent |-> dir]

\* the querySingle promise query() awaits: the last one it created
CurQ(c) == Len(qs[c])

QNextChunk(rec) == QueryTranscript(rec.cwd)[rec.fed + 1]
QHasChunk(rec, stream) ==
  /\ rec.proc = "running"
  /\ rec.fed < Len(QueryTranscript(rec.cwd))
  /\ QNextChunk(rec)[1] = stream

\* lines 183-191: one complete line of stdout
LinePushed(rec, line) ==
  IF ItemParses(line) THEN Append(rec.results, Item(line, rec.parent))
  ELSE rec.results

QLine(c, k) ==
  /\ ~JobsPending
  /\ k \in 1..Len(qs[c]) /\ QHasChunk(qs[c][k], "line")
  /\ qs' = [qs EXCEPT ![c][k] =
       [@ EXCEPT !.results = LinePushed(qs[c][k], QNextChunk(qs[c][k])[2]),
                 !.out = @ \o QNextChunk(qs[c][k])[2],
                 !.fed = @ + 1]]
  /\ UNCHANGED <<buildQueue, promise, buildCmd, queryCmd, pc, kind, dirIdx,
                 probe, awaited, results, ret, log, hist, jobs, sr>>

\* lines 192-194
QStderr(c, k) ==
  /\ ~JobsPending
  /\ k \in 1..Len(qs[c]) /\ QHasChunk(qs[c][k], "err")
  /\ qs' = [qs EXCEPT ![c][k] =
       [@ EXCEPT !.err = @ \o QNextChunk(qs[c][k])[2], !.fed = @ + 1]]
  /\ UNCHANGED <<buildQueue, promise, buildCmd, queryCmd, pc, kind, dirIdx,
                 probe, awaited, results, ret, log, hist, jobs, sr>>

\* lines 195-198
QError(c, k) ==
  /\ ~JobsPending
  /\ k \in 1..Len(qs[c]) /\ qs[c][k].proc = "running"
  /\ qs[c][k].fed = 0
  /\ qs' = [qs EXCEPT ![c][k] =
       [ErrorOutcome(@) EXCEPT
           !.proc = "errored", !.first = FirstEvent(@, "error")]]
  /\ UNCHANGED <<buildQueue, promise, buildCmd, queryCmd, pc, kind, dirIdx,
                 probe, awaited, results, ret, log, hist, jobs, sr>>

\* lines 199-210
\* (variant: the exit code is not looked at)
QCloseOutcomeIgnoreCode(rec, code) == Settle(rec, "fulfilled", rec.results)
QCloseOutcome(rec, code) ==
  IF code # 0 THEN Settle(rec, "rejected", Trim(rec.err))
  ELSE Settle(rec, "fulfilled", rec.results)

QClose(c, k, code) ==
  /\ ~JobsPending
  /\ k \in 1..Len(qs[c])
  /\ CanClose(qs[c][k], QueryTranscript(qs[c][k].cwd))
  /\ qs' = [qs EXCEPT ![c][k] =
       [QCloseOutcome(@, code) EXCEPT
           !.proc = "closed",
           !.first = FirstEvent(@, IF code = 0 THEN "exit0" ELSE "exitN")]]
  /\ UNCHANGED <<buildQueue, promise, buildCmd, queryCmd, pc, kind, dirIdx,
                 probe, awaited, results, ret, log, hist, jobs, sr>>

\* ----------------------------------------------------------------- query --
\* lines 146-153: query() is entered; the loop reaches the first querySingle
QueryCall(c, type, word) ==
  /\ NextToCall(c)
  /\ Cardinality({d \in Callers : kind[d] = "query"}) < MaxQueries
  /\ kind' = [kind EXCEPT ![c] = "query"]
  /\ results' = [results EXCEPT ![c] = <<>>]
  /\ IF NumDirs = 0
     THEN /\ pc' = [pc EXCEPT ![c] = "done"]
          /\ ret' = [ret EXCEPT ![c] = <<>>]
          /\ UNCHANGED <<dirIdx, qs, queryCmd>>
     ELSE /\ pc' = [pc EXCEPT ![c] = "qawait"]
          /\ dirIdx' = [dirIdx EXCEPT ![c] = 1]
          /\ qs' = [qs EXCEPT ![c] = <<NewQuery(type, word, Directories[1])>>]
          /\ queryCmd' = QueryCmdLine(type, word)
          /\ UNCHANGED ret
  /\ UNCHANGED <<buildQueue, promise, buildCmd, probe, awaited, log, hist, jobs, sr>>

\* line 153: `await` lets query() go on only once querySingle's promise settled
\* (variant: querySingle called without await)
QueryAwaitDoneNoAwait(c) == TRUE
QueryAwaitDone(c) == qs[c][CurQ(c)].state # "pending"

\* lines 153-157: what query() appends for a settled querySingle
QueryItems(rec) == IF rec.state = "fulfilled" THEN rec.value ELSE <<>>

\* lines 151-159: the continuation of `await this.querySingle(...)`
QueryResume(c) ==
  /\ pc[c] = "qawait"
  /\ QueryAwaitDone(c)
  /\ results' = [results EXCEPT ![c] = @ \o QueryItems(qs[c][CurQ(c)])]
  /\ log' = IF qs[c][CurQ(c)].state = "rejected"
            THEN log \cup {<<"query", c, Directories[dirIdx[c]]>>} ELSE log
  /\ hist' = [hist EXCEPT ![c].dirs = Append(@, qs[c][CurQ(c)].first)]
  /\ IF dirIdx[c] < NumDirs
     THEN /\ dirIdx' = [dirIdx EXCEPT ![c] = @ + 1]
          /\ qs' = [qs EXCEPT ![c] = Append(@,
                 NewQuery(qs[c][1].type, qs[c][1].word, Directories[dirIdx[c] + 1]))]
          /\ queryCmd' = QueryCmdLine(qs[c][1].type, qs[c][1].word)
          /\ UNCHANGED <<pc, ret>>
     ELSE /\ pc' = [pc EXCEPT ![c] = "done"]
          /\ ret' = [ret EXCEPT ![c] = results'[c]]
          /\ UNCHANGED <<dirIdx, qs, queryCmd>>
  /\ UNCHANGED <<buildQueue, promise, buildCmd, kind, probe, awaited, jobs, sr>>

\* ------------------------------------------------------------------ next --
Next ==
  \/ \E c \in Callers : BuildCall(c)
  \/ \E c \in Callers : ProbeResume(c)
  \/ \E o \in OpIds : StartBuild(o)
  \/ \E o \in OpIds : ProcStdout(o)
  \/ \E o \in OpIds : ProcStderr(o)
  \/ \E o \in OpIds : ProcError(o)
  \/ \E o \in OpIds, code \in ExitCodes : ProcClose(o, code)
  \/ \E c \in Callers : BuildResume(c)
  \/ \E c \in Callers, type \in QueryKinds, word \in QueryWords : QueryCall(c, type, word)
  \/ \E c \in Callers, k \in 1..NumDirs : QLine(c, k)
  \/ \E c \in Callers, k \in 1..NumDirs : QStderr(c, k)
  \/ \E c \in Callers, k \in 1..NumDirs : QError(c, k)
  \/ \E c \in Callers, k \in 1..NumDirs, code \in ExitCodes : QClose(c, k, code)
  \/ \E c \in Callers : QueryResume(c)

Spec == Init /\ [][Next]_vars

\* ============================================ CscopeQuery (part_000) ====
\* ------------------------------------------------------ string primitives --
\* String.prototype.indexOf(ch, from): positions count from 0; -1 if none
IndexOf(s, ch, from) ==
  LET hits == {k \in 0..(Len(s) - 1) : k >= from /\ s[k + 1] = ch}
  IN IF hits = {} THEN -1 ELSE CHOOSE k \in hits : \A j \in hits : k <= j

\* String.prototype.slice(start, end): a negative index counts from the end,
\* both are clamped to the string, an empty range gives ''
SliceIndex(n, len) ==
  IF n < 0 THEN (IF len + n < 0 THEN 0 ELSE len + n)
  ELSE (IF n > len THEN len ELSE n)
Slice(s, start, end) ==
  SubSeq(s, SliceIndex(start, Len(s)) + 1, SliceIndex(end, Len(s)))
SliceFrom(s, start) == Slice(s, start, Len(s))

\* String.prototype.split('\n')
RECURSIVE Split(_)
Split(s) ==
  IF IndexOf(s, "\n", 0) = -1 THEN <<s>>
  ELSE <<Slice(s, 0, IndexOf(s, "\n", 0))>> \o Split(SliceFrom(s, IndexOf(s, "\n", 0) + 1))

DigitValue ==
  [ch \in {"0","1","2","3","4","5","6","7","8","9"} |->
     CASE ch = "0" -> 0 [] ch = "1" -> 1 [] ch = "2" -> 2 [] ch = "3" -> 3
       [] ch = "4" -> 4 [] ch = "5" -> 5 [] ch = "6" -> 6 [] ch = "7" -> 7
       [] ch = "8" -> 8 [] ch = "9" -> 9]

RECURSIVE LeadingDigits(_)
LeadingDigits(s) ==
  IF s = <<>> THEN <<>>
  ELSE IF Head(s) \in DOMAIN DigitValue THEN <<Head(s)>> \o LeadingDigits(Tail(s))
  ELSE <<>>

RECURSIVE DecimalValue(_)
DecimalValue(ds) ==
  IF ds = <<>> THEN 0
  ELSE 10 * DecimalValue(SubSeq(ds, 1, Len(ds) - 1)) + DigitValue[ds[Len(ds)]]

\* parseInt(s) without radix: leading white space is skipped, then an optional
\* sign, then the longest run of decimal digits; what follows is ignored; NaN
\* if there is no digit.  (No input here starts with 0x.)
NaN == [nan |-> TRUE, val |-> 0]
ParseInt(s) ==
  LET t == TrimStart(s)
      signed == t # <<>> /\ Head(t) \in {"+", "-"}
      ds == LeadingDigits(IF signed THEN Tail(t) ELSE t)
  IN IF ds = <<>> THEN NaN
     ELSE [nan |-> FALSE,
           val |-> IF signed /\ Head(t) = "-" THEN 0 - DecimalValue(ds)
                   ELSE DecimalValue(ds)]

\* NaN - 1 is NaN
Minus1(n) == IF n.nan THEN NaN ELSE [nan |-> FALSE, val |-> n.val - 1]

\* new RegExp(p) throws a SyntaxError on an unterminated group or an
\* unmatched ')'
RECURSIVE GroupDepth(_, _)
GroupDepth(p, depth) ==
  IF p = <<>> THEN depth
  ELSE IF depth < 0 THEN depth
  ELSE GroupDepth(Tail(p), depth + (IF Head(p) = "(" THEN 1
                                     ELSE IF Head(p) = ")" THEN -1 ELSE 0))
RegExpThrows(p) == GroupDepth(p, 0) # 0

\* String.prototype.search(p): p is made a RegExp; the position (from 0) of
\* the first match, -1 if none.  For the patterns that occur here: a '.'
\* matches any character, every other character matches itself.
MatchesAt(text, p, k) ==
  /\ k + Len(p) <= Len(text)
  /\ \A j \in 1..Len(p) : p[j] = "." \/ p[j] = text[k + j]
Search(text, p) ==
  LET hits == {k \in 0..Len(text) : MatchesAt(text, p, k)}
  IN IF hits = {} THEN -1 ELSE CHOOSE k \in hits : \A j \in hits : k <= j

\* ------------------------------------------------------------ environment --
\* vscode.workspace.rootPath
RootPath == <<"/", "w">>

\* the documents openTextDocument can open, and their lines (from line 0)
SrcAC == <<"/","s","r","c","/","a",".","c">>
DocumentPaths == {SrcAC, <<"/","w","/","a">>, <<"/","w","/","1">>}
DocumentLines(path) ==
  IF path = SrcAC
  THEN [k \in 1..12 |->
          IF k = 12
          THEN <<"i","n","t"," ","m","y","F","u","n","c","(","v","o","i","d",")"," ","{">>
          ELSE <<>>]
  ELSE IF path = <<"/","w","/","a">> THEN << <<"f","x">>, <<"x","f">> >>
  ELSE << <<"f">> >>

\* the lines an output is made of
ExampleLine ==
  <<"/","s","r","c","/","a",".","c"," ","m","y","F","u","n","c"," ","1","2"," ",
    "i","n","t"," ","m","y","F","u","n","c","(","v","o","i","d",")"," ","{">>
OutputLines ==
  { ExampleLine,
    <<"a"," ","f"," ","2"," ","r"," ","s">>,
    <<"a"," ","g"," ","1"," ","r">>,
    <<"n"," ","f"," ","1"," ","r">>,
    <<"a"," ","f"," ","x"," ","r">>,
    <<"a"," ","f"," ","9"," ","r">>,
    <<"1"," ","f">>,
    <<"a","b">> }

\* every output of up to MaxLines lines, each line ended by a newline
RECURSIVE OutputsOf(_)
OutputsOf(n) ==
  IF n = 0 THEN { <<>> }
  ELSE { line \o <<"\n">> \o rest : line \in OutputLines, rest \in OutputsOf(n - 1) }
Outputs == UNION { OutputsOf(n) : n \in 0..MaxLines }

SrTypes == {"callee", "text"}
SrPatterns == { <<"f">>, <<"f", "(">> }

\* ------------------------------------------------------------ getFullPath --
\* lines 82-88.  path.posix.join(root, file) puts one '/' between the two and
\* normalises the result; an empty file leaves the root.  (No file name here
\* holds '.', '..' or '//' segments, so normalising changes nothing.)
PosixJoin(root, file) == IF file = <<>> THEN root ELSE root \o <<"/">> \o file
IsAbsolute(file) == file # <<>> /\ Head(file) = "/"
GetFullPath(file) == IF IsAbsolute(file) THEN file ELSE PosixJoin(RootPath, file)

\* ------------------------------------------------------------- setResults --
\* lines 97-103: the locals of one loop iteration
\* (variant: the line number kept as reported)
LineNumberAsReported(line, func_last, line_last) ==
  ParseInt(Slice(line, func_last + 1, line_last))
LineNumber(line, func_last, line_last) ==
  Minus1(ParseInt(Slice(line, func_last + 1, line_last)))

SrLocals(line) ==
  LET file_last == IndexOf(line, " ", 0)
      func_last == IndexOf(line, " ", file_last + 1)
      line_last == IndexOf(line, " ", func_last + 1)
  IN [file |-> GetFullPath(Slice(line, 0, file_last)),
      func |-> Slice(line, file_last + 1, func_last),
      lnum |-> LineNumber(line, func_last, line_last),
      rest |-> SliceFrom(line, line_last + 1)]

\* line 109: openTextDocument rejects for a file it cannot open
CanOpen(file) == file \in DocumentPaths
\* line 110: lineAt throws unless lnum is the number of a line of the document
HasLine(file, lnum) ==
  /\ ~lnum.nan
  /\ lnum.val >= 0 /\ lnum.val < Len(DocumentLines(file))
LineText(file, lnum) == DocumentLines(file)[lnum.val + 1]

\* lines 111-117: what is searched for
Needle(type, pattern, func) == IF type = "callee" THEN func ELSE pattern

\* lines 118-127 and 17-28: the item pushed for a line whose text was found
NewCscopeItem(l, text, needle) ==
  LET cnum == Search(text, needle)
  IN [uri |-> l.file, name |-> l.func, rest |-> l.rest, text |-> text,
      line |-> l.lnum.val,
      start |-> IF cnum = -1 THEN 0 ELSE cnum,
      length |-> IF cnum = -1 THEN 0 ELSE Len(needle)]

\* line 129
WarningMessage(file) ==
  <<"C","o","u","l","d"," ","n","o","t"," ","o","p","e","n"," ","\"">> \o file \o <<"\"", ".">>

\* lines 93-131: one iteration: "short" (line 94), "item" (line 127) or
\* "warn" (the catch of lines 128-131, which any exception of 109-127 enters)
LineOutcome(line, type, pattern) ==
  LET l == SrLocals(line)
      needle == Needle(type, pattern, l.func)
  IN IF Len(line) < 3 THEN "short"
     ELSE IF ~CanOpen(l.file) THEN "warn"
     ELSE IF ~HasLine(l.file, l.lnum) THEN "warn"
     ELSE IF RegExpThrows(needle) THEN "warn"
     ELSE "item"

\* line 92: the loop goes on to the next line after the catch
\* (variant: the loop is left at the first exception)
IndexAfterCatchAbort(i, n) == n + 1
IndexAfterCatch(i, n) == i + 1

\* lines 64-68: new CscopeQuery(type, pattern)
CscopeQueryNew(type, pattern) ==
  /\ ~sr.called
  /\ sr' = [called |-> TRUE, phase |-> "new", type |-> type, pattern |-> pattern,
            results |-> <<>>, warnings |-> <<>>, lines |-> <<>>, i |-> 1,
            trace |-> <<>>]
  /\ UNCHANGED <<buildQueue, promise, buildCmd, queryCmd, pc, kind, dirIdx, probe,
                 awaited, results, ret, qs, log, hist, jobs>>

\* lines 90-91: setResults(output) is entered (once per object here)
SetResultsCall(output) ==
  /\ sr.called /\ sr.phase = "new"
  /\ sr' = [sr EXCEPT !.phase = "run", !.lines = Split(output), !.i = 1]
  /\ UNCHANGED <<buildQueue, promise, buildCmd, queryCmd, pc, kind, dirIdx, probe,
                 awaited, results, ret, qs, log, hist, jobs>>

\* lines 92-132: one iteration of the loop, the await of line 109 included;
\* trace is history: what the iteration computed and how it ended
SetResultsLine ==
  /\ sr.called /\ sr.phase = "run"
  /\ sr.i <= Len(sr.lines)
  /\ LET line == sr.lines[sr.i]
         l == SrLocals(line)
         how == LineOutcome(line, sr.type, sr.pattern)
         found == Len(line) >= 3 /\ CanOpen(l.file) /\ HasLine(l.file, l.lnum)
         text == IF found THEN LineText(l.file, l.lnum) ELSE <<>>
         needle == Needle(sr.type, sr.pattern, l.func)
     IN sr' = [sr EXCEPT
          !.results = IF how = "item" THEN Append(@, NewCscopeItem(l, text, needle)) ELSE @,
          !.warnings = IF how = "warn" THEN Append(@, WarningMessage(l.file)) ELSE @,
          !.i = IF how = "warn" THEN IndexAfterCatch(sr.i, Len(sr.lines)) ELSE sr.i + 1,
          !.trace = Append(@, [how |-> how, at |-> sr.i, locals |-> l, found |-> found,
                               text |-> text, items |-> Len(sr.results)])]
  /\ UNCHANGED <<buildQueue, promise, buildCmd, queryCmd, pc, kind, dirIdx, probe,
                 awaited, results, ret, qs, log, hist, jobs>>

SetResultsNext ==
  \/ \E type \in SrTypes, pattern \in SrPatterns : CscopeQueryNew(type, pattern)
  \/ \E output \in Outputs : SetResultsCall(output)
  \/ SetResultsLine

SetResultsSpec == Init /\ [][SetResultsNext]_vars

\* ================================================================ claims ==

\* ---- C1 ----------------------------------------------------------------
\* C1: build mutual exclusion.  The process of a build operation is never
\* started while an operation that was accepted and unsettled when its
\* buildSingle call was made is still unsettled; and at most one build
\* process is running at any time.
Running == {o \in Ops : promise[o].proc = "running"}
Spawned(o) == promise[o].proc # "none"

C1_MutualExclusion ==
  /\ \A o \in Ops : Spawned(o) => \A x \in promise[o].pendingAtSubmit : Settled(x)
  /\ Cardinality(Running) <= 1

\* an operation that had to wait for an outstanding one has been started
C1_Witness ==
  \E o \in Ops : Spawned(o) /\ promise[o].pendingAtSubmit # {}

\* ---- C2 ----------------------------------------------------------------
\* C2: a buildSingle call made while both slots hold unsettled operations
\* ends in the 'queue full' rejection: the step that ends its scan creates no
\* operation, leaves the slot array and every promise as they were, starts no
\* process, and finds the operations of both slots still unsettled (it did
\* not wait for them).
ScanEnds(c) == pc[c] = "probe" /\ pc'[c] = "await"

C2_QueueFull ==
  [][\A c \in Callers :
       (hist[c].full /\ pc[c] = "probe" /\ <<pc[c], probe[c]>> # <<pc'[c], probe'[c]>>) =>
          /\ UNCHANGED <<buildQueue, promise>>
          /\ ScanEnds(c) => /\ awaited'[c] = 0
                            /\ AwaitedValue(c)' = QueueFullMsg
                            /\ \A s \in 1..Capacity : ~Settled(buildQueue[s])']_vars

\* a call made with both slots unsettled has been rejected, both still unsettled
C2_Witness ==
  \E c \in Callers :
    /\ pc[c] = "await" /\ awaited[c] = 0 /\ hist[c].full
    /\ \A s \in 1..Capacity : ~Settled(buildQueue[s])

\* ---- C3 ----------------------------------------------------------------
\* C3: hard cap.  In every reachable state the number of operations accepted
\* by buildSingle and not yet settled is at most the capacity (2).
C3_HardCap == Cardinality(Unsettled) <= Capacity

\* ---- C4 ----------------------------------------------------------------
\* C4: the wait set of an accepted operation holds only operations that were
\* pending when it was accepted; an operation that had settled before is
\* never in it.
WaitSet(o) == {promise[o].wait[k] : k \in 1..Len(promise[o].wait)}

C4_WaitSetOnlyPending ==
  \A o \in Ops : (WaitSet(o) \cap Ops) \subseteq promise[o].pendingAtStore

\* ---- C5 ----------------------------------------------------------------
\* C5: an accepted operation runs its process once every operation of its
\* wait set has settled, whether fulfilled or rejected: when the promise jobs
\* have run (none is runnable), an operation whose whole wait set has settled
\* has had its process spawned.
C5_StartsAfterWaitSettles ==
  \A o \in Ops :
    ((\A x \in WaitSet(o) : Settled(x)) /\ ~JobsPending) => Spawned(o)

\* ---- C6 ----------------------------------------------------------------
\* the steps of the program itself: promise jobs and process events (every
\* action but the callers' new calls)
ProgramStep ==
  \/ \E c \in Callers : ProbeResume(c) \/ BuildResume(c) \/ QueryResume(c)
  \/ \E o \in OpIds : StartBuild(o) \/ ProcStdout(o) \/ ProcStderr(o) \/ ProcError(o)
  \/ \E o \in OpIds, code \in ExitCodes : ProcClose(o, code)
  \/ \E c \in Callers, k \in 1..NumDirs : QLine(c, k) \/ QStderr(c, k) \/ QError(c, k)
  \/ \E c \in Callers, k \in 1..NumDirs, code \in ExitCodes : QClose(c, k, code)

InCall(c) == pc[c] \in {"probe", "await", "qawait"}

\* C6: every build() and every query() call eventually returns a value, given
\* that every spawned process eventually emits 'error' or 'close': while a
\* call has not returned, the program can still take a step (a promise job
\* can run, or a spawned process has an event to deliver).
C6_CallsReturn ==
  (\E c \in Callers : InCall(c)) => ENABLED ProgramStep

\* ---- C7 ----------------------------------------------------------------
\* what the tool prints in directory d, trimmed, spelled out
ExpectedStdout(d) == <<DirChar(d), " ", "x">>
ExpectedStderr(d) == <<"e", DirChar(d)>>
ExpectedLaunchError == <<"E","N","O","E","N","T">>

ExpectedSegment(d, how) ==
  CASE how = "exit0" -> ExpectedStdout(d)
    [] how = "exitN" -> <<"E","r","r","o","r",":"," ">> \o ExpectedStderr(d)
    [] how = "error" -> <<"E","r","r","o","r",":"," ">> \o ExpectedLaunchError
    [] how = "full" -> <<"E","r","r","o","r",":"," ","q","u","e","u","e"," ","f","u","l","l">>

RECURSIVE ExpectedReport(_, _)
ExpectedReport(dirs, i) ==
  IF i > Len(dirs) THEN <<>>
  ELSE ExpectedSegment(Directories[i], dirs[i])
         \o (IF i < Len(dirs) THEN <<"\n">> ELSE <<>>)
         \o ExpectedReport(dirs, i + 1)

BuildReturned(c) == kind[c] = "build" /\ pc[c] = "done"

\* C7: for k directories build() returns k segments joined by newlines, in
\* directory order: segment i is directory i's trimmed stdout if its build
\* succeeded, and 'Error: ' followed by the failure message (trimmed stderr,
\* the launch error, or 'queue full') if it failed.
C7_BuildReport ==
  \A c \in Callers : BuildReturned(c) =>
    /\ Len(hist[c].dirs) = NumDirs
    /\ Len(results[c]) = NumDirs
    /\ ret[c] = ExpectedReport(hist[c].dirs, 1)

\* one build() has returned a report of 'queue full' rejections, another a
\* report with a successful directory followed by a failed one
C7_Witness ==
  /\ \E c \in Callers : BuildReturned(c) /\ hist[c].dirs[1] = "full"
  /\ \E c \in Callers : BuildReturned(c) /\ hist[c].dirs[1] = "exit0" /\ hist[c].dirs[NumDirs] = "exitN"

\* ---- C8 ----------------------------------------------------------------
FailedBefore(c) == \E i \in 1..Len(hist[c].dirs) : hist[c].dirs[i] # "exit0"

\* C8: per-directory failure isolation.  When an earlier directory of a
\* build() or query() call has failed, the call still goes on to the next
\* directory and that directory's process is invoked: once the promise jobs
\* have run, the operation of the directory the call is at has been rejected
\* as 'queue full', or has its process spawned, or waits only because an
\* operation of its wait set is still unsettled.
C8_FailureIsolation ==
  \A c \in Callers : (FailedBefore(c) /\ ~JobsPending) =>
    /\ pc[c] = "await" =>
         \/ awaited[c] = 0
         \/ Spawned(awaited[c])
         \/ \E x \in WaitSet(awaited[c]) : ~Settled(x)
    /\ pc[c] = "qawait" => qs[c][CurQ(c)].proc # "none"

\* ---- C9 ----------------------------------------------------------------
\* the items of directory d's output: its two well-formed lines, in order
ExpectedItems(d) ==
  << [text |-> <<DirChar(d), " ", "g", " ", "1", " ", "r">>, parent |-> d],
     [text |-> <<DirChar(d), " ", "g", " ", "2", " ", "r">>, parent |-> d] >>

RECURSIVE ExpectedQueryResult(_, _)
ExpectedQueryResult(dirs, i) ==
  IF i > Len(dirs) THEN <<>>
  ELSE (IF dirs[i] = "exit0" THEN ExpectedItems(Directories[i]) ELSE <<>>)
         \o ExpectedQueryResult(dirs, i + 1)

QueryReturned(c) == kind[c] = "query" /\ pc[c] = "done"

\* C9: query() returns the items of the successful directories, directory
\* order outer and line order inner; a directory whose process fails (launch
\* error or non-zero exit) contributes no item, even when lines of it had been
\* parsed before it failed, and its failure is logged.
C9_QueryResult ==
  \A c \in Callers : QueryReturned(c) =>
    /\ Len(hist[c].dirs) = NumDirs
    /\ ret[c] = ExpectedQueryResult(hist[c].dirs, 1)
    /\ \A i \in 1..NumDirs :
         hist[c].dirs[i] # "exit0" <=> <<"query", c, Directories[i]>> \in log

\* a query() has returned although its first directory failed with a
\* non-zero exit after two of its lines had been parsed
C9_Witness ==
  \E c \in Callers :
    /\ QueryReturned(c)
    /\ hist[c].dirs[1] = "exitN" /\ Len(qs[c][1].results) = 2
    /\ hist[c].dirs[NumDirs] = "exit0"
    /\ ret[c] # <<>>

\* ---- C10 ---------------------------------------------------------------
\* C10: within one build() call and within one query() call the directories
\* are handled one after the other: when the operation of a later directory
\* exists, the operations of the call's earlier directories have settled, and
\* a call never has two processes of its own running.
C10_Sequential ==
  /\ \A o1, o2 \in Ops :
       (promise[o1].owner = promise[o2].owner /\ o1 < o2) => Settled(o1)
  /\ \A c \in Callers :
       /\ \A k \in 1..Len(qs[c]) : k < Len(qs[c]) => qs[c][k].state # "pending"
       /\ Cardinality({k \in 1..Len(qs[c]) : qs[c][k].proc = "running"}) <= 1
       /\ Cardinality({o \in Running : promise[o].owner = c}) <= 1

\* a build() and a query() are both at their second directory, process running
C10_Witness ==
  /\ \E o1, o2 \in Ops :
       promise[o1].owner = promise[o2].owner /\ o1 < o2 /\ promise[o2].proc = "running"
  /\ \E c \in Callers : Len(qs[c]) = 2 /\ qs[c][2].proc = "running"

\* ---- C11 ---------------------------------------------------------------
\* what a query in directory d writes to stderr, trimmed, spelled out
ExpectedQueryStderr(d) == <<"q", DirChar(d)>>

\* C11: process outcome.  An invocation is settled exactly when a first
\* 'error' or 'close' event of its process has come, and its outcome is that
\* of this first event whatever comes later: rejected with the trimmed launch
\* error after 'error'; rejected with the trimmed stderr after a close with a
\* non-zero code; fulfilled with the trimmed stdout (a query: with the parsed
\* items) after a close with code 0.
C11_ProcessOutcome ==
  /\ \A o \in Ops :
       /\ Settled(o) <=> promise[o].first # "none"
       /\ promise[o].first = "error" =>
            promise[o].state = "rejected" /\ promise[o].value = ExpectedLaunchError
       /\ promise[o].first = "exitN" =>
            promise[o].state = "rejected" /\ promise[o].value = ExpectedStderr(promise[o].cwd)
       /\ promise[o].first = "exit0" =>
            promise[o].state = "fulfilled" /\ promise[o].value = ExpectedStdout(promise[o].cwd)
  /\ \A c \in Callers : \A k \in 1..Len(qs[c]) :
       /\ qs[c][k].state # "pending" <=> qs[c][k].first # "none"
       /\ qs[c][k].first = "error" =>
            qs[c][k].state = "rejected" /\ qs[c][k].value = ExpectedLaunchError
       /\ qs[c][k].first = "exitN" =>
            qs[c][k].state = "rejected" /\ qs[c][k].value = ExpectedQueryStderr(qs[c][k].cwd)
       /\ qs[c][k].first = "exit0" =>
            qs[c][k].state = "fulfilled" /\ qs[c][k].value = ExpectedItems(qs[c][k].cwd)

\* a build process and a query process that could not be launched have both
\* emitted 'close' after their 'error'
C11_Witness ==
  /\ \E o \in Ops : promise[o].first = "error" /\ promise[o].proc = "closed"
  /\ \E c \in Callers : \E k \in 1..Len(qs[c]) :
       qs[c][k].first = "error" /\ qs[c][k].proc = "closed"

\* ---- C12 ---------------------------------------------------------------
\* C12: the two promises the constructor puts in the slots are fulfilled, so
\* the first and the second buildSingle call ever made are accepted (their
\* scan does not end in 'queue full'), and the initial promises never hold an
\* operation back: once the promise jobs have run, an operation whose wait
\* list holds no unfulfilled operation has had its process spawned.
C12_FreshQueue ==
  /\ \A s \in 1..Capacity : promise[s].state = "fulfilled"
  /\ \A c \in Callers :
       (pc[c] = "await" /\ hist[c].seq <= Capacity) => awaited[c] # 0
  /\ \A o \in Ops :
       (~JobsPending /\ \A x \in WaitSet(o) \cap Ops : promise[x].state = "fulfilled")
          => Spawned(o)

\* the second buildSingle call ever made has been accepted and its process
\* spawned
C12_Witness ==
  \E c \in Callers :
    /\ pc[c] = "await" /\ hist[c].seq = Capacity
    /\ awaited[c] # 0 /\ Spawned(awaited[c])

\* ---- C13 ---------------------------------------------------------------
\* the fields of a line, read off blank by blank
RECURSIVE BeforeBlank(_)
BeforeBlank(s) ==
  IF s = <<>> THEN <<>>
  ELSE IF Head(s) = " " THEN <<>> ELSE <<Head(s)>> \o BeforeBlank(Tail(s))
RECURSIVE AfterBlank(_)
AfterBlank(s) ==
  IF s = <<>> THEN <<>>
  ELSE IF Head(s) = " " THEN Tail(s) ELSE AfterBlank(Tail(s))

FileField(line) == BeforeBlank(line)
SymbolField(line) == BeforeBlank(AfterBlank(line))
NumberField(line) == BeforeBlank(AfterBlank(AfterBlank(line)))
Remainder(line) == AfterBlank(AfterBlank(AfterBlank(line)))

IsNumber(f) ==
  f # <<>> /\ \A k \in 1..Len(f) : f[k] \in {"0","1","2","3","4","5","6","7","8","9"}
ResolvedFile(f) ==
  IF f # <<>> /\ f[1] = "/" THEN f ELSE <<"/", "w", "/">> \o f

\* the lines setResults has gone through so far, and the item (if any) that
\* the k-th of them produced
Processed == IF sr.called THEN 1..Len(sr.trace) ELSE {}
LineOf(k) == sr.lines[sr.trace[k].at]
ItemOf(k) == sr.results[sr.trace[k].items + 1]

\* C13: for every line with at least three blanks the parser takes the file
\* from the text before the first blank (resolved against the root unless
\* absolute), the symbol from the text between the first and the second, the
\* line number from the integer between the second and the third, less 1, and
\* the remainder from everything after the third, blanks included.  The line
\* '/src/a.c myFunc 12 int myFunc(void) {' gives file '/src/a.c', symbol
\* 'myFunc', line 11 and remainder 'int myFunc(void) {'.  An item that is
\* produced carries the values parsed from its line.
C13_LineParsing ==
  \A k \in Processed :
    /\ Spaces(LineOf(k)) >= 3 =>
         /\ sr.trace[k].locals.file = ResolvedFile(FileField(LineOf(k)))
         /\ sr.trace[k].locals.func = SymbolField(LineOf(k))
         /\ sr.trace[k].locals.rest = Remainder(LineOf(k))
         /\ IsNumber(NumberField(LineOf(k))) =>
              /\ ~sr.trace[k].locals.lnum.nan
              /\ sr.trace[k].locals.lnum.val + 1 = DecimalValue(NumberField(LineOf(k)))
    /\ LineOf(k) = ExampleLine =>
         /\ sr.trace[k].locals =
              [file |-> <<"/","s","r","c","/","a",".","c">>,
               func |-> <<"m","y","F","u","n","c">>,
               lnum |-> [nan |-> FALSE, val |-> 11],
               rest |-> <<"i","n","t"," ","m","y","F","u","n","c","(","v","o","i","d",")"," ","{">>]
    /\ sr.trace[k].how = "item" =>
         /\ ItemOf(k).uri = sr.trace[k].locals.file
         /\ ItemOf(k).name = sr.trace[k].locals.func
         /\ ItemOf(k).line = sr.trace[k].locals.lnum.val
         /\ ItemOf(k).rest = sr.trace[k].locals.rest

\* the example line and a line whose remainder holds a blank have both
\* produced an item
C13_Witness ==
  /\ \E k \in Processed : LineOf(k) = ExampleLine /\ sr.trace[k].how = "item"
  /\ \E k \in Processed :
       /\ sr.trace[k].how = "item"
       /\ ItemOf(k).rest = <<"r", " ", "s">> /\ ItemOf(k).line = 1

\* ---- C14 ---------------------------------------------------------------
\* C14: a line with fewer than three blanks, or whose line-number field is
\* not an integer, produces no item, whatever its text looks like and whether
\* or not a file derived from it can be opened.
C14_MalformedSkipped ==
  \A k \in Processed :
    (Spaces(LineOf(k)) < 3 \/ ParseInt(NumberField(LineOf(k))).nan)
       => sr.trace[k].how # "item"

\* ---- C15 ---------------------------------------------------------------
\* the position (from 0) at which needle occurs in text as it is written
OccursAt(text, needle, k) ==
  k + Len(needle) <= Len(text) /\ SubSeq(text, k + 1, k + Len(needle)) = needle
Occurrences(text, needle) == {k \in 0..Len(text) : OccursAt(text, needle, k)}

\* C15: whenever the target line's text of a well-formed line was found, an
\* item is produced: if the symbol name (kind 'callee') or the search pattern
\* (any other kind) does not occur in that text, with highlight start 0 and
\* length 0; if it does occur, with the highlight starting at an occurrence.
C15_HighlightDegrades ==
  \A k \in Processed : (Spaces(LineOf(k)) >= 3 /\ sr.trace[k].found) =>
    /\ sr.trace[k].how = "item"
    /\ Occurrences(sr.trace[k].text,
                   IF sr.type = "callee" THEN sr.trace[k].locals.func ELSE sr.pattern) = {}
         => ItemOf(k).start = 0 /\ ItemOf(k).length = 0
    /\ Occurrences(sr.trace[k].text,
                   IF sr.type = "callee" THEN sr.trace[k].locals.func ELSE sr.pattern) # {}
         => ItemOf(k).start \in
              Occurrences(sr.trace[k].text,
                          IF sr.type = "callee" THEN sr.trace[k].locals.func ELSE sr.pattern)

\* ---- C16 ---------------------------------------------------------------
\* how many of the first n processed lines ended as `how`
RECURSIVE CountHow(_, _)
CountHow(how, n) ==
  IF n = 0 THEN 0
  ELSE (IF sr.trace[n].how = how THEN 1 ELSE 0) + CountHow(how, n - 1)

\* C16: a line whose file cannot be opened produces no item and a warning
\* 'Could not open "<file>".'; the loop then goes on with the next line (no
\* line of the output is left out); the items produced by earlier lines stay
\* in the results, which hold one item per successful line, in line order.
C16_OpenFailureSkipsLine ==
  /\ \A k \in Processed :
       /\ sr.trace[k].at = k
       /\ sr.trace[k].items = CountHow("item", k - 1)
       /\ sr.trace[k].how = "item" =>
            ItemOf(k).uri = sr.trace[k].locals.file /\ ItemOf(k).rest = sr.trace[k].locals.rest
       /\ (Len(LineOf(k)) >= 3 /\ sr.trace[k].locals.file \notin DocumentPaths) =>
            /\ sr.trace[k].how = "warn"
            /\ sr.warnings[CountHow("warn", k)] =
                 <<"C","o","u","l","d"," ","n","o","t"," ","o","p","e","n"," ","\"">>
                   \o sr.trace[k].locals.file \o <<"\"", ".">>
  /\ sr.called =>
       /\ sr.i = Len(sr.trace) + 1
       /\ Len(sr.results) = CountHow("item", Len(sr.trace))
       /\ Len(sr.warnings) = CountHow("warn", Len(sr.trace))

\* setResults has finished an output in which a line whose file cannot be
\* opened stands between two lines that produced items
C16_Witness ==
  /\ sr.called /\ sr.phase = "run" /\ sr.i > Len(sr.lines)
  /\ \E k \in Processed :
       /\ k + 2 \in Processed
       /\ sr.trace[k].how = "item"
       /\ sr.trace[k + 1].how = "warn"
       /\ sr.trace[k + 1].locals.file \notin DocumentPaths
       /\ sr.trace[k + 2].how = "item"
       /\ Len(sr.results) = 2 /\ Len(sr.warnings) = 1

\* ---- C17 ---------------------------------------------------------------
\* C17: whenever buildSingle stores a new operation into a slot, the
\* operation that slot holds at that moment has settled: no operation was
\* stored over a pending one.
C17_StoreOverSettled ==
  \A o \in Ops : promise[o].storedOver # "pending"

\* ---- C18 ---------------------------------------------------------------
\* C18: the build queue never gets stuck.  Given that every spawned process
\* ends, every accepted operation settles; so when the program has nothing
\* left to do (no promise job can run and no process has an event left to
\* deliver), every slot holds a settled promise and a new buildSingle call
\* would be accepted.
C18_NeverStuck ==
  (~ENABLED ProgramStep) => \A s \in 1..Capacity : Settled(buildQueue[s])

\* ---- C19 ---------------------------------------------------------------
InSlot(x) == \E s \in 1..Capacity : buildQueue[s] = x

\* C19: builds run in the order in which they were stored (the order of the
\* operations' ids): the process of an operation is spawned only when every
\* operation stored before it has settled, whether or not that operation is
\* still in a slot or in its wait list.
C19_RegistrationOrder ==
  \A x, y \in Ops : (x < y /\ Spawned(y)) => Settled(x)

\* an operation has been spawned although one that was pending when it was
\* stored had been written over in its slot and was not in its wait list
C19_Witness ==
  \E x, y \in Ops :
    /\ x < y /\ Spawned(y)
    /\ x \in promise[y].pendingAtStore
    /\ x \notin WaitSet(y) /\ ~InSlot(x)

\* ---- C20 ---------------------------------------------------------------
\* a step of query() or querySingle: a query promise or queryCmd changes, or
\* a query() activation is entered, goes on or returns
QueryStep ==
  \/ qs' # qs
  \/ queryCmd' # queryCmd
  \/ \E c \in Callers :
       kind'[c] = "query" /\ <<kind[c], pc[c], results[c], ret[c]>> # <<kind'[c], pc'[c], results'[c], ret'[c]>>

\* C20: queries are independent of the build queue.  No step of query() or
\* querySingle changes the slot array, a build operation, the queue of scans
\* or buildCmd; a query's process is spawned as its promise is created (it
\* waits for no build), and no query is rejected with 'queue full'.
C20_QueryIndependent ==
  /\ [][QueryStep => UNCHANGED <<buildQueue, promise, buildCmd, jobs, probe, awaited>>]_vars
  /\ [](\A c \in Callers : \A k \in 1..Len(qs[c]) :
          qs[c][k].proc # "none" /\ qs[c][k].value # QueueFullMsg)

\* a query's process has delivered output while a build process is running
\* and both slots hold unsettled operations
C20_Witness ==
  /\ \E c \in Callers : \E k \in 1..Len(qs[c]) :
       qs[c][k].proc = "running" /\ qs[c][k].fed > 0
  /\ Running # {}
  /\ \A s \in 1..Capacity : ~Settled(buildQueue[s])

====
